---- MODULE Spec2Model ----
(***************************************************************************)
(* Travel blog front end: the article filter (blog.js) and the city-blob   *)
(* map renderer (map.js and its snapshots).  The model follows the page's  *)
(* event loop: the data load, the boundary fetch that initializeMap awaits *)
(* and the filter / reset handlers registered by setupEventListeners.      *)
(*                                                                         *)
(* Two snapshots of the map renderer are modelled side by side:            *)
(*   "blobOnly"   src/js/map.js:1-187     registry entry { blob }          *)
(*   "blobMarker" src/unnamed/part_000    registry entry { blob, marker }  *)
(* JavaScript strings are TLA+ strings; Len, \o and SubSeq act on them.    *)
(*                                                                         *)
(* Specifications:                                                         *)
(*   Spec       the page: load, boundary fetch, filter and reset handlers  *)
(*   FairSpec   Spec with the continuation of initializeMap after its      *)
(*              await                                                      *)
(*   ClickSpec  the page with blob clicks and their 2-second timers        *)
(*   BlobSpec   the blob generation of one city, with a third snapshot,    *)
(*              "blobMarkerPlain" (src/unnamed/part_001), never clipping   *)
(***************************************************************************)
EXTENDS Integers, Sequences, FiniteSets, TLC

VARIABLES
  variant,           \* which snapshot of map.js the page loads
  turfLoaded,        \* typeof turf !== 'undefined'
  pc,                \* position of loadBlogData
  allArticles,       \* blog.js: let allArticles
  filteredArticles,  \* blog.js: let filteredArticles
  countryFilter,     \* value of #country-filter
  yearFilter,        \* value of #year-filter
  searchInput,       \* value of #search-input
  container,         \* content of #articles
  articleCount,      \* text of #article-count (the number in it)
  europeBoundaries,  \* map.js: let europeBoundaries
  mapReady,          \* map.js: let map has been assigned by initMap
  cityMarkers,       \* map.js: let cityMarkers (key -> registry entry)
  mapLayers,         \* the blob / marker layers currently on the Leaflet map
  citiesMap,         \* addCityMarkers: const citiesMap of the latest call
  mapArticles,       \* addCityMarkers: the articles argument of the latest call
  lastOp,            \* the handler that ran last
  afterReset,        \* the handler before the last one was resetFilters
  lastThrew,         \* where the last handler threw ("no" when it completed)
  lastMapCall,       \* how addCityMarkers ended in the last handler
  highlighted,       \* ids of the cards in #articles that carry the highlight shadow
  timers,            \* pending setTimeout callbacks of the blob click handlers
  blobCall           \* the latest blob generation: its inputs and what it returned

vars == << variant, turfLoaded, pc, allArticles, filteredArticles, countryFilter,
           yearFilter, searchInput, container, articleCount, europeBoundaries,
           mapReady, cityMarkers, mapLayers, citiesMap, mapArticles, lastOp,
           afterReset, lastThrew, lastMapCall, highlighted, timers, blobCall >>

(***************************************************************************)
(* Bounds of the model.                                                    *)
(***************************************************************************)
\* Longest article list of a dataset.
MaxArticles == 2

\* Oldest layer (in renders survived) a map may carry before the model stops
\* issuing further events.
MaxStale == 2

(***************************************************************************)
(* JavaScript strings.                                                     *)
(***************************************************************************)
UpperChars == "ABCDEFGHIJKLMNOPQRSTUVWXYZ"
LowerChars == "abcdefghijklmnopqrstuvwxyz"

CharAt(s, i) == SubSeq(s, i, i)

LowerChar(c) ==
  IF \E k \in 1..Len(UpperChars) : CharAt(UpperChars, k) = c
  THEN CharAt(LowerChars, CHOOSE k \in 1..Len(UpperChars) : CharAt(UpperChars, k) = c)
  ELSE c

RECURSIVE toLowerCase(_)
toLowerCase(s) ==
  IF Len(s) = 0 THEN ""
  ELSE LowerChar(CharAt(s, 1)) \o toLowerCase(SubSeq(s, 2, Len(s)))

\* String.prototype.includes
includes(text, term) ==
  \E i \in 1..(Len(text) - Len(term) + 1) : SubSeq(text, i, i + Len(term) - 1) = term

Digits == "0123456789"

\* Number.prototype.toString for a non-negative integer.
RECURSIVE NumberToString(_)
NumberToString(n) ==
  IF n < 10 THEN CharAt(Digits, n + 1)
  ELSE NumberToString(n \div 10) \o CharAt(Digits, (n % 10) + 1)

\* Array.prototype.join(' ')
RECURSIVE join(_)
join(list) ==
  IF Len(list) = 0 THEN ""
  ELSE IF Len(list) = 1 THEN list[1]
  ELSE list[1] \o " " \o join(Tail(list))

(***************************************************************************)
(* Articles of the dataset (data/articles.json).  A year is stored as a    *)
(* number, stored as text, or not stored; a tags list is optional.         *)
(***************************************************************************)
NumberYear(n) == [kind |-> "number", num |-> n, str |-> ""]
StringYear(s) == [kind |-> "string", num |-> 0, str |-> s]
NoYear        == [kind |-> "undefined", num |-> 0, str |-> ""]

Tags(list) == [present |-> TRUE, list |-> list]
NoTags     == [present |-> FALSE, list |-> << >>]

Article(id, title, city, country, coordinates, date, year, wordCount, content, tags) ==
  [id |-> id, title |-> title, city |-> city, country |-> country,
   coordinates |-> coordinates, date |-> date, year |-> year,
   wordCount |-> wordCount, content |-> content, tags |-> tags]

\* The article objects a dataset is drawn from.  The lists of the program
\* (allArticles, filteredArticles, cityData.articles) hold references to these
\* objects: the model holds their position in ArticlePool.
ArticlePool ==
  << Article(1, "Fado", "Porto", "Portugal", <<41, -8>>, "2023-05-01",
             NumberYear(2023), 500, "<p>Tram</p>", Tags(<<"sea", "sun">>)),
     Article(2, "Douro", "Porto", "Portugal", <<41, -8>>, "2023-06-01",
             StringYear("2023"), 700, "wine", NoTags),
     Article(3, "Dom", "A-B", "C", <<50, 8>>, "2022-03-01",
             NumberYear(2022), 300, "old", NoTags),
     Article(4, "Hafen", "A", "B-C", <<53, 10>>, "2022-07-01",
             NoYear, 200, "Sea", Tags(<<"port">>)),
     Article(5, "Ria", "Porto", "portugal", <<41, -8>>, "2022-08-01",
             NumberYear(2022), 100, "boat", Tags(<<"sun">>)) >>

ArticleRefs == DOMAIN ArticlePool
AllRefs == [r \in ArticleRefs |-> r]

\* The article lists a dataset can hold: up to MaxArticles of the objects, in
\* the order of ArticlePool.
Datasets ==
  UNION { { s \in [1..n -> ArticleRefs] : \A i, j \in 1..n : i < j => s[i] < s[j] }
          : n \in 0..MaxArticles }

\* What the user can type into #search-input.
SearchTerms == {"", "SEA", "undefined", "porto"}

Range(s) == { s[i] : i \in 1..Len(s) }

(***************************************************************************)
(* blog.js: populateFilters and filterArticles.                            *)
(***************************************************************************)
\* String(article.year): the value of the <option> populateFilters adds.
YearOptionValue(year) ==
  CASE year.kind = "number" -> NumberToString(year.num)
    [] year.kind = "string" -> year.str
    [] OTHER -> "undefined"

CountryOptions(articles) ==
  {""} \cup { ArticlePool[r].country : r \in Range(articles) }
YearOptions(articles) ==
  {""} \cup { YearOptionValue(ArticlePool[r].year) : r \in Range(articles) }

\* article.year.toString(); the call throws when article.year is undefined.
YearToStringThrows(article) == article.year.kind = "undefined"

YearToString(article) ==
  IF article.year.kind = "number" THEN NumberToString(article.year.num)
  ELSE article.year.str

\* The country test without its `country &&` guard.
CountryPassesNoGuard(article, country) == article.country = country

\* if (country && article.country !== country) return false;
CountryPasses(article, country) == ~(country # "" /\ article.country # country)

\* if (year && article.year.toString() !== year) return false;
YearPasses(article, year) == ~(year # "" /\ YearToString(article) # year)

\* ${article.tags?.join(' ')} inside the template literal
TagsText(article) ==
  IF article.tags.present THEN join(article.tags.list) ELSE "undefined"

searchableText(article) ==
  toLowerCase("\n        " \o article.title \o " \n        " \o article.city
              \o " \n        " \o article.country \o " \n        " \o article.content
              \o "\n        " \o TagsText(article) \o "\n      ")

\* if (searchTerm) { ... if (!searchableText.includes(searchTerm)) return false; }
SearchPasses(article, searchTerm) ==
  ~(searchTerm # "" /\ ~includes(searchableText(article), searchTerm))

\* The three tests of the filter callback, tabulated once per article object and
\* input value.  The year test of an article without a year is never consulted:
\* FilterThrows holds whenever the callback would reach it.
CountryTable ==
  [r \in ArticleRefs |->
     [c \in CountryOptions(AllRefs) |-> CountryPasses(ArticlePool[r], c)]]
YearTable ==
  [r \in ArticleRefs |->
     [y \in YearOptions(AllRefs) |->
        IF YearToStringThrows(ArticlePool[r]) THEN TRUE
        ELSE YearPasses(ArticlePool[r], y)]]
SearchTable ==
  [r \in ArticleRefs |->
     [t \in SearchTerms |-> SearchPasses(ArticlePool[r], toLowerCase(t))]]

\* The callback of allArticles.filter throws at the first article that passes the
\* country test and has no year, when a year filter is set.
FilterThrows(articles, country, year) ==
  /\ year # ""
  /\ \E i \in 1..Len(articles) :
       CountryTable[articles[i]][country] /\ YearToStringThrows(ArticlePool[articles[i]])

\* allArticles.filter(article => ...) with search the value of #search-input.
FilterResult(articles, country, year, search) ==
  LET Keep(r) == /\ CountryTable[r][country]
                 /\ YearTable[r][year]
                 /\ SearchTable[r][search]
  IN SelectSeq(articles, Keep)

(***************************************************************************)
(* blog.js: renderArticles.                                                *)
(***************************************************************************)
ArticleIds(articles) == [i \in 1..Len(articles) |-> ArticlePool[articles[i]].id]

\* The content of #articles after renderArticles(articles).
RenderedContainer(articles) ==
  IF Len(articles) = 0
  THEN [kind |-> "noResults", ids |-> << >>]
  ELSE [kind |-> "cards", ids |-> ArticleIds(articles)]

\* The number in #article-count after renderArticles(articles): the early return
\* for an empty list leaves the label as it was.
RenderedCount(articles, before) ==
  IF Len(articles) = 0 THEN before ELSE Len(articles)

\* A catch block that leaves #articles as it was before the load.
ErrorNotShown == [kind |-> "initial", ids |-> << >>]

\* document.getElementById('articles').innerHTML = '<div class="no-results">...</div>'
ErrorContainer == [kind |-> "error", ids |-> << >>]

\* container.innerHTML = ...: the card elements are replaced by new ones, which
\* carry no inline style; a pending timer keeps the element it closed over.
Detached(pending) == [i \in 1..Len(pending) |-> [pending[i] EXCEPT !.attached = FALSE]]

ReplaceCards ==
  /\ highlighted' = {}
  /\ timers' = Detached(timers)

(***************************************************************************)
(* map.js: addCityMarkers.                                                 *)
(***************************************************************************)
\* const key = `${article.city}-${article.country}`;
CityKey(article) == article.city \o "-" \o article.country

\* articles.forEach(...) over the first n articles: citiesMap as the sequence of
\* its values in insertion order (the order of Object.entries).
\* if (!citiesMap[key]) citiesMap[key] = { city, country, coordinates, articles: [], totalWords: 0 }
NewCityData(key, article) ==
  [key |-> key, city |-> article.city, country |-> article.country,
   coordinates |-> article.coordinates, articles |-> << >>, totalWords |-> 0]

\* The push with `=` in place of `+=`.
PushArticleNoSum(cityData, ref) ==
  [cityData EXCEPT !.articles = Append(@, ref),
                   !.totalWords = ArticlePool[ref].wordCount]

\* citiesMap[key].articles.push(article); citiesMap[key].totalWords += article.wordCount;
PushArticle(cityData, ref) ==
  [cityData EXCEPT !.articles = Append(@, ref),
                   !.totalWords = @ + ArticlePool[ref].wordCount]

RECURSIVE GroupArticles(_, _)
GroupArticles(articles, n) ==
  IF n = 0 THEN << >>
  ELSE LET acc == GroupArticles(articles, n - 1)
           ref == articles[n]
           key == CityKey(ArticlePool[ref])
           had == \E i \in 1..Len(acc) : acc[i].key = key
           map == IF had THEN acc ELSE Append(acc, NewCityData(key, ArticlePool[ref]))
       IN [i \in 1..Len(map) |->
             IF map[i].key = key THEN PushArticle(map[i], ref) ELSE map[i]]

GroupByCity(articles) == GroupArticles(articles, Len(articles))

\* The layers one iteration of the Object.entries loop adds to the map.
LayerKinds(v) == IF v = "blobOnly" THEN {"blob"} ELSE {"blob", "marker"}

\* The layers the clearing loop at the top of addCityMarkers takes off the map.
\* The registry always belongs to the latest call, whose layers have age 0.
\*   blobOnly:   if (m.blob) map.removeLayer(m.blob)
\*   blobMarker: map.removeLayer(marker) with marker = { blob, marker }, which
\*               is no layer of the map: Leaflet's removeLayer returns at once.
RemovedLayers(v, markers, layers) ==
  IF v = "blobOnly"
  THEN { l \in layers : l.age = 0 /\ l.kind = "blob" /\ l.key \in DOMAIN markers }
  ELSE {}

\* getCountryPolygon reads europeBoundaries.features.find outside any try block.
\*   blobOnly:   generateBlob calls it first.
\*   blobMarker: clipBlobToCountry calls it unless turf is undefined.
BlobThrows(v, turf, boundaries) ==
  /\ boundaries = "malformed"
  /\ (v = "blobOnly" \/ (v = "blobMarker" /\ turf))

\* The registry entry and what its handlers close over (cityData); a layer on
\* the map carries, as `first`, the id its click handler looks up:
\* cityData.articles[0].id.
RegistryEntry(v, cityData) ==
  [layers |-> LayerKinds(v), city |-> cityData.city, country |-> cityData.country,
   firstArticle |-> ArticlePool[cityData.articles[1]].id, totalWords |-> cityData.totalWords]

\* addCityMarkers(articles) with the map in state `ready` and boundaries as given.
\* The first iteration throws when generateBlob throws or map is undefined
\* (L.polygon(...).addTo(map)); nothing has been added or registered by then.
AddCityMarkers(articles, boundaries, ready) ==
  LET groups  == GroupByCity(articles)
      throws  == Len(groups) > 0 /\ (BlobThrows(variant, turfLoaded, boundaries) \/ ~ready)
      kept    == mapLayers \ RemovedLayers(variant, cityMarkers, mapLayers)
      aged    == { [l EXCEPT !.age = @ + 1] : l \in kept }
      keys    == { groups[i].key : i \in 1..Len(groups) }
      entryOf(k) == LET i == CHOOSE i \in 1..Len(groups) : groups[i].key = k
                    IN RegistryEntry(variant, groups[i])
      added   == { [key |-> k, kind |-> kind, age |-> 0, first |-> entryOf(k).firstArticle] :
                     k \in keys, kind \in LayerKinds(variant) }
  IN /\ citiesMap' = groups
     /\ mapArticles' = articles
     /\ cityMarkers' = IF throws THEN << >> ELSE [k \in keys |-> entryOf(k)]
     /\ mapLayers' = IF throws THEN aged ELSE aged \cup added
     /\ lastMapCall' = IF throws THEN "threw" ELSE "done"

(***************************************************************************)
(* map.js: the blob geometry.  Lengths and coordinates are in thousandths  *)
(* of a degree, Math.random() in thousandths; a product of two such values *)
(* is brought back to thousandths by \div 1000.                            *)
(***************************************************************************)
\* The snapshots that differ in their geometry: src/js/map.js:1-187,
\* src/unnamed/part_000 and src/unnamed/part_001 (which never clips).
BlobVariants == {"blobOnly", "blobMarker", "blobMarkerPlain"}

\* Per snapshot: the number of points, the factor of Math.sqrt(wordCount), the
\* minimum radius, and low + Math.random() * spread.
BlobConfig(v) ==
  CASE v = "blobOnly"   -> [points |-> 14, scale |-> 20, floor |-> 350, low |-> 700, spread |-> 600]
    [] v = "blobMarker" -> [points |-> 10, scale |-> 30, floor |-> 500, low |-> 500, spread |-> 1000]
    [] OTHER            -> [points |-> 8,  scale |-> 8,  floor |-> 150, low |-> 600, spread |-> 800]

\* Math.cos and Math.sin of (Math.PI * 2 / points) * i for i = 0 .. points - 1.
CosMilli(points) ==
  CASE points = 14 -> << 1000, 901, 623, 223, -223, -623, -901,
                     -1000, -901, -623, -223, 223, 623, 901 >>
    [] points = 10 -> << 1000, 809, 309, -309, -809, -1000, -809, -309, 309,
                    809 >>
    [] points = 8  -> << 1000, 707, 0, -707, -1000, -707, 0, 707 >>

SinMilli(points) ==
  CASE points = 14 -> << 0, 434, 782, 975, 975, 782, 434, 0, -434, -782,
                    -975, -975, -782, -434 >>
    [] points = 10 -> << 0, 588, 951, 951, 588, 0, -588, -951, -951, -588 >>
    [] points = 8  -> << 0, 707, 1000, 707, 0, -707, -1000, -707 >>

\* The largest k with k * k <= n, found between lo and hi.
RECURSIVE SqrtBetween(_, _, _)
SqrtBetween(n, lo, hi) ==
  IF lo >= hi THEN lo
  ELSE LET mid == (lo + hi + 1) \div 2
       IN IF mid * mid <= n THEN SqrtBetween(n, mid, hi) ELSE SqrtBetween(n, lo, mid - 1)

\* Math.sqrt(wordCount) * scale
BaseRadius(v, wordCount) ==
  LET c == BlobConfig(v)
  IN SqrtBetween(wordCount * c.scale * c.scale, 0, (wordCount + 1) * c.scale)

\* The radius with Math.min in place of Math.max.
RadiusMin(v, wordCount) ==
  LET base == BaseRadius(v, wordCount)
  IN IF base <= BlobConfig(v).floor THEN base ELSE BlobConfig(v).floor

\* Math.max(baseRadius, floor)
Radius(v, wordCount) ==
  LET base == BaseRadius(v, wordCount)
  IN IF base >= BlobConfig(v).floor THEN base ELSE BlobConfig(v).floor

\* Largest number of Math.random() calls the random source repeats after.
RandomPeriod == 3

\* The values Math.random() can return, in thousandths.
RandomDraws == {0, 999}

\* The random sources: the k-th call of Math.random() returns seed[k mod period].
RandomSeeds == [1..RandomPeriod -> RandomDraws]
Random(seed, k) == seed[((k - 1) % Len(seed)) + 1]

\* The loop of generateSimpleBlob / generateBlobCoordinates, which pushes one
\* point per angle; `used` calls of Math.random() were made before.
BlobPoints(v, center, radius, seed, used) ==
  LET c == BlobConfig(v)
      r(i) == (radius * (c.low + (Random(seed, used + i) * c.spread) \div 1000)) \div 1000
  IN [i \in 1..c.points |->
        << center[1] * 1000 + (r(i) * CosMilli(c.points)[i]) \div 1000,
           center[2] * 1000 + (r(i) * SinMilli(c.points)[i]) \div 1000 >>]

\* The generator without its closing push.
generateSimpleBlobOpen(v, center, radius, seed, used) ==
  BlobPoints(v, center, radius, seed, used)

\* coords.push(coords[0]); return coords;
generateSimpleBlob(v, center, radius, seed, used) ==
  LET coords == BlobPoints(v, center, radius, seed, used)
  IN Append(coords, coords[1])

\* The countries europe.geojson has a feature for (by name or name_en).
BoundaryCountries == {"Portugal"}

\* getCountryPolygon when it returns: null without boundaries or without a
\* feature of that name, the feature's geometry otherwise.
getCountryPolygon(boundaries, countryName) ==
  IF boundaries = "loaded" /\ countryName \in BoundaryCountries THEN "polygon" ELSE "null"

\* The conversion back to Leaflet order left out.
ToLeafletUnswapped(ring) == ring

\* coordinates[0].map(c => [c[1], c[0]]): GeoJSON [lon, lat] to Leaflet [lat, lon]
ToLeaflet(ring) == [i \in 1..Len(ring) |-> << ring[i][2], ring[i][1] >>]

\* blob.map(c => [c[1], c[0]]): Leaflet [lat, lon] to GeoJSON [lon, lat]
ToGeoJSON(ring) == [i \in 1..Len(ring) |-> << ring[i][2], ring[i][1] >>]

\* What turf.intersect can do with the blob ring it is handed: throw, return
\* null (no overlap), return a feature without geometry or with no ring, return
\* the blob's ring unchanged (blob inside the country) or a ring cut short.
IntersectOutcomes == {"throws", "null", "noGeometry", "noRing", "same", "cut"}

\* clipped.geometry.coordinates[0] when the intersection yields a ring.
IntersectRing(outcome, ring) ==
  IF outcome = "same" THEN ring ELSE << ring[1] >> \o SubSeq(ring, 3, Len(ring))

\* The intersection yields a ring that the code converts and returns.
Clips(outcome) == outcome \in {"same", "cut"}

\* The record of one blob generation that returned.
BlobReturned(in, radius, attempted, generated, result) ==
  [phase |-> "done", cityData |-> in.cityData, seed |-> in.seed, outcome |-> in.outcome,
   radius |-> radius, attempted |-> attempted, generated |-> generated,
   handed |-> IF attempted THEN ToGeoJSON(generated) ELSE << >>, result |-> result]

\* The record of one blob generation that threw.
BlobThrew(in) ==
  [phase |-> "threw", cityData |-> in.cityData, seed |-> in.seed, outcome |-> in.outcome]

\* return generateSimpleBlob([lat, lon], maxRadius) after the try block: a new
\* blob, drawn from the random source where the first one left it.
Fallback(v, center, radius, seed) ==
  generateSimpleBlob(v, center, radius, seed, BlobConfig(v).points)

\* src/js/map.js: generateBlob(center, wordCount, countryName)
generateBlob(in, turf, boundaries) ==
  LET v == "blobOnly"
      center == in.cityData.coordinates
      radius == Radius(v, in.cityData.totalWords)
      attempted == getCountryPolygon(boundaries, in.cityData.country) # "null" /\ turf
      initialBlob == generateSimpleBlob(v, center, radius, in.seed, 0)
  IN IF BlobThrows(v, turf, boundaries) THEN BlobThrew(in)
     ELSE IF ~attempted THEN BlobReturned(in, radius, FALSE, initialBlob, initialBlob)
     ELSE IF Clips(in.outcome)
          THEN BlobReturned(in, radius, TRUE, initialBlob,
                            ToLeaflet(IntersectRing(in.outcome, ToGeoJSON(initialBlob))))
          ELSE BlobReturned(in, radius, TRUE, initialBlob,
                            Fallback(v, center, radius, in.seed))

\* src/unnamed/part_000: generateBlobCoordinates, then clipBlobToCountry
clipBlobToCountry(in, turf, boundaries) ==
  LET v == "blobMarker"
      center == in.cityData.coordinates
      radius == Radius(v, in.cityData.totalWords)
      blobCoords == generateSimpleBlob(v, center, radius, in.seed, 0)
      attempted == turf /\ getCountryPolygon(boundaries, in.cityData.country) # "null"
  IN IF BlobThrows(v, turf, boundaries) THEN BlobThrew(in)
     ELSE IF ~attempted THEN BlobReturned(in, radius, FALSE, blobCoords, blobCoords)
     ELSE IF Clips(in.outcome)
          THEN BlobReturned(in, radius, TRUE, blobCoords,
                            ToLeaflet(IntersectRing(in.outcome, ToGeoJSON(blobCoords))))
          ELSE BlobReturned(in, radius, TRUE, blobCoords, blobCoords)

\* src/unnamed/part_001: generateBlobCoordinates alone
generateBlobCoordinates(in) ==
  LET v == "blobMarkerPlain"
      center == in.cityData.coordinates
      radius == Radius(v, in.cityData.totalWords)
      coordinates == generateSimpleBlob(v, center, radius, in.seed, 0)
  IN BlobReturned(in, radius, FALSE, coordinates, coordinates)

\* The aggregates addCityMarkers can hand to the blob generation.
CityAggregates ==
  UNION { { GroupByCity(d)[i] : i \in 1..Len(GroupByCity(d)) } : d \in Datasets }

\* No blob has been generated yet.
NoBlobCall == [phase |-> "none"]

(***************************************************************************)
(* The page.                                                               *)
(***************************************************************************)
Init ==
  /\ variant \in {"blobOnly", "blobMarker"}
  /\ turfLoaded \in BOOLEAN
  /\ pc = "start"
  /\ allArticles = << >>
  /\ filteredArticles = << >>
  /\ countryFilter = ""
  /\ yearFilter = ""
  /\ searchInput = ""
  /\ container = [kind |-> "initial", ids |-> << >>]
  /\ articleCount = -1
  /\ europeBoundaries = "null"
  /\ mapReady = FALSE
  /\ cityMarkers = << >>
  /\ mapLayers = {}
  /\ citiesMap = << >>
  /\ mapArticles = << >>
  /\ lastOp = "none"
  /\ afterReset = FALSE
  /\ lastThrew = "no"
  /\ lastMapCall = "none"
  /\ highlighted = {}
  /\ timers = << >>
  /\ blobCall = NoBlobCall

\* loadBlogData up to the await inside initializeMap: the dataset arrives,
\* initializeBlog renders the list and registers the listeners, initializeMap
\* starts and waits for loadEuropeBoundaries.
LoadBlogData ==
  /\ pc = "start"
  /\ \E articles \in Datasets :
       /\ allArticles' = articles
       /\ filteredArticles' = articles
       /\ container' = RenderedContainer(articles)
       /\ articleCount' = RenderedCount(articles, articleCount)
  /\ pc' = "awaitBoundaries"
  /\ lastOp' = "load"
  /\ afterReset' = (lastOp = "reset")
  /\ lastThrew' = "no"
  /\ lastMapCall' = "none"
  /\ ReplaceCards
  /\ UNCHANGED << variant, turfLoaded, countryFilter, yearFilter, searchInput,
                  europeBoundaries, mapReady, cityMarkers, mapLayers, citiesMap,
                  mapArticles, blobCall >>

\* loadBlogData when fetch or response.json() rejects: the catch block.
LoadBlogDataFails ==
  /\ pc = "start"
  /\ pc' = "failed"
  /\ container' = ErrorContainer
  /\ lastOp' = "load"
  /\ afterReset' = (lastOp = "reset")
  /\ lastThrew' = "fetch"
  /\ lastMapCall' = "none"
  /\ ReplaceCards
  /\ UNCHANGED << variant, turfLoaded, allArticles, filteredArticles, countryFilter,
                  yearFilter, searchInput, articleCount, europeBoundaries, mapReady,
                  cityMarkers, mapLayers, citiesMap, mapArticles, blobCall >>

\* What loadEuropeBoundaries leaves in europeBoundaries: null when the fetch or
\* the parse rejects, the feature collection when it loads, and the parsed body
\* when that body has no features array (the console.log throws after the
\* assignment).
BoundaryOutcomes == {"null", "loaded", "malformed"}

\* initializeMap after the await: initMap, then addCityMarkers(articles) with the
\* list it was called with.  When addCityMarkers throws, the catch block of
\* loadBlogData replaces the article list by the error message.
InitializeMap ==
  /\ pc = "awaitBoundaries"
  /\ \E outcome \in BoundaryOutcomes :
       /\ europeBoundaries' = outcome
       /\ AddCityMarkers(allArticles, outcome, TRUE)
  /\ mapReady' = TRUE
  /\ pc' = IF lastMapCall' = "threw" THEN "mapFailed" ELSE "done"
  /\ container' = IF lastMapCall' = "threw" THEN ErrorContainer ELSE container
  /\ IF lastMapCall' = "threw" THEN ReplaceCards ELSE UNCHANGED << highlighted, timers >>
  /\ lastOp' = "mapInit"
  /\ afterReset' = (lastOp = "reset")
  /\ lastThrew' = IF lastMapCall' = "threw" THEN "map" ELSE "no"
  /\ UNCHANGED << variant, turfLoaded, allArticles, filteredArticles, countryFilter,
                  yearFilter, searchInput, articleCount, blobCall >>

\* The listeners exist once initializeBlog has run.
ListenersRegistered == pc \in {"awaitBoundaries", "done", "mapFailed"}

\* The model issues no further event once a layer has survived MaxStale renders.
WithinBounds == \A l \in mapLayers : l.age < MaxStale

\* The body of filterArticles with the three inputs as read from the DOM.
FilterArticlesBody(country, year, search) ==
  LET result == FilterResult(allArticles, country, year, search)
  IN IF FilterThrows(allArticles, country, year)
     THEN /\ lastThrew' = "filter"
          /\ lastMapCall' = "none"
          /\ UNCHANGED << filteredArticles, container, articleCount, cityMarkers,
                          mapLayers, citiesMap, mapArticles, highlighted, timers >>
     ELSE /\ filteredArticles' = result
          /\ container' = RenderedContainer(result)
          /\ ReplaceCards
          /\ articleCount' = RenderedCount(result, articleCount)
          /\ AddCityMarkers(result, europeBoundaries, mapReady)
          /\ lastThrew' = IF lastMapCall' = "threw" THEN "map" ELSE "no"

\* A change of #country-filter, a change of #year-filter or an input event of
\* #search-input: the browser has set the value, the listener runs filterArticles.
filterArticles ==
  /\ ListenersRegistered
  /\ WithinBounds
  /\ \/ \E c \in CountryOptions(allArticles) :
          /\ countryFilter' = c
          /\ UNCHANGED << yearFilter, searchInput >>
     \/ \E y \in YearOptions(allArticles) :
          /\ yearFilter' = y
          /\ UNCHANGED << countryFilter, searchInput >>
     \/ \E t \in SearchTerms :
          /\ searchInput' = t
          /\ UNCHANGED << countryFilter, yearFilter >>
  /\ FilterArticlesBody(countryFilter', yearFilter', searchInput')
  /\ lastOp' = "filter"
  /\ afterReset' = (lastOp = "reset")
  /\ UNCHANGED << variant, turfLoaded, pc, allArticles, europeBoundaries, mapReady,
                  blobCall >>

\* A reset that leaves the filtered list as it was.
ResetResultStale(articles) == filteredArticles

\* filteredArticles = [...allArticles]
ResetResult(articles) == articles

\* A click on #reset-btn.
resetFilters ==
  /\ ListenersRegistered
  /\ WithinBounds
  /\ countryFilter' = ""
  /\ yearFilter' = ""
  /\ searchInput' = ""
  /\ filteredArticles' = ResetResult(allArticles)
  /\ container' = RenderedContainer(filteredArticles')
  /\ articleCount' = RenderedCount(filteredArticles', articleCount)
  /\ ReplaceCards
  /\ AddCityMarkers(filteredArticles', europeBoundaries, mapReady)
  /\ lastThrew' = IF lastMapCall' = "threw" THEN "map" ELSE "no"
  /\ lastOp' = "reset"
  /\ afterReset' = (lastOp = "reset")
  /\ UNCHANGED << variant, turfLoaded, pc, allArticles, europeBoundaries, mapReady,
                  blobCall >>

Next ==
  \/ LoadBlogData
  \/ LoadBlogDataFails
  \/ InitializeMap
  \/ filterArticles
  \/ resetFilters

Spec == Init /\ [][Next]_vars

(***************************************************************************)
(* The page with the blob click handler and the timers it starts.          *)
(***************************************************************************)
\* Most timers pending at once.
MaxTimers == 2

\* document.getElementById(`article-${id}`): the card is in #articles.
CardInDom(id) == container.kind = "cards" /\ id \in Range(container.ids)

\* A timeout callback that leaves the shadow as the click set it.
AfterTimeoutStill(shown, timer) == shown

\* setTimeout(() => { el.style.boxShadow = <resting shadow> }, 2000) on the
\* element the click found, which may have left the DOM since.
AfterTimeout(shown, timer) ==
  IF timer.attached THEN shown \ {timer.id} ELSE shown

\* A click on a blob polygon that is on the map.
blobClick ==
  /\ \E l \in mapLayers :
       /\ l.kind = "blob"
       /\ IF CardInDom(l.first)
          THEN /\ Len(timers) < MaxTimers
               /\ highlighted' = highlighted \cup {l.first}
               /\ timers' = Append(timers, [id |-> l.first, attached |-> TRUE])
          ELSE UNCHANGED << highlighted, timers >>
  /\ UNCHANGED << variant, turfLoaded, pc, allArticles, filteredArticles, countryFilter,
                  yearFilter, searchInput, container, articleCount, europeBoundaries,
                  mapReady, cityMarkers, mapLayers, citiesMap, mapArticles, lastOp,
                  afterReset, lastThrew, lastMapCall, blobCall >>

\* The oldest pending timer fires (all timers run 2000 ms).
timerFires ==
  /\ Len(timers) > 0
  /\ highlighted' = AfterTimeout(highlighted, Head(timers))
  /\ timers' = Tail(timers)
  /\ UNCHANGED << variant, turfLoaded, pc, allArticles, filteredArticles, countryFilter,
                  yearFilter, searchInput, container, articleCount, europeBoundaries,
                  mapReady, cityMarkers, mapLayers, citiesMap, mapArticles, lastOp,
                  afterReset, lastThrew, lastMapCall, blobCall >>

\* The datasets of the click specification: two articles of one city, of two
\* cities, and of two cities that share a key.
ClickDatasets == { << 1, 2 >>, << 1, 3 >>, << 3, 4 >> }

ClickNext ==
  \/ (LoadBlogData /\ allArticles' \in ClickDatasets)
  \/ LoadBlogDataFails
  \/ InitializeMap
  \/ filterArticles
  \/ resetFilters
  \/ blobClick
  \/ timerFires

ClickSpec == Init /\ [][ClickNext]_vars

\* The page with its scheduling: the await in initializeMap resumes once the
\* boundary fetch has settled, whichever way.
FairSpec == Spec /\ WF_vars(InitializeMap)

(***************************************************************************)
(* The blob generation on its own: one iteration of the Object.entries     *)
(* loop of addCityMarkers up to the polygon it hands to L.polygon, for     *)
(* every aggregate, random source and behaviour of turf.intersect.         *)
(***************************************************************************)
BlobInputs ==
  [phase : {"input"}, cityData : CityAggregates, seed : RandomSeeds,
   outcome : IntersectOutcomes]

BlobInit ==
  /\ variant \in BlobVariants
  /\ turfLoaded \in BOOLEAN
  /\ europeBoundaries \in BoundaryOutcomes
  /\ blobCall \in BlobInputs
  /\ pc = "done"
  /\ allArticles = << >>
  /\ filteredArticles = << >>
  /\ countryFilter = ""
  /\ yearFilter = ""
  /\ searchInput = ""
  /\ container = RenderedContainer(<< >>)
  /\ articleCount = -1
  /\ mapReady = TRUE
  /\ cityMarkers = << >>
  /\ mapLayers = {}
  /\ citiesMap = << >>
  /\ mapArticles = << >>
  /\ lastOp = "none"
  /\ afterReset = FALSE
  /\ lastThrew = "no"
  /\ lastMapCall = "none"
  /\ highlighted = {}
  /\ timers = << >>

pageVars ==
  << variant, turfLoaded, pc, allArticles, filteredArticles, countryFilter,
     yearFilter, searchInput, container, articleCount, europeBoundaries, mapReady,
     cityMarkers, mapLayers, citiesMap, mapArticles, lastOp, afterReset, lastThrew,
     lastMapCall, highlighted, timers >>

GenerateBlob ==
  /\ variant = "blobOnly"
  /\ blobCall.phase = "input"
  /\ blobCall' = generateBlob(blobCall, turfLoaded, europeBoundaries)
  /\ UNCHANGED pageVars

ClipBlobToCountry ==
  /\ variant = "blobMarker"
  /\ blobCall.phase = "input"
  /\ blobCall' = clipBlobToCountry(blobCall, turfLoaded, europeBoundaries)
  /\ UNCHANGED pageVars

GenerateBlobCoordinates ==
  /\ variant = "blobMarkerPlain"
  /\ blobCall.phase = "input"
  /\ blobCall' = generateBlobCoordinates(blobCall)
  /\ UNCHANGED pageVars

BlobNext ==
  \/ GenerateBlob
  \/ ClipBlobToCountry
  \/ GenerateBlobCoordinates

BlobSpec == BlobInit /\ [][BlobNext]_vars

(***************************************************************************)
(* Properties.                                                             *)
(***************************************************************************)
InputsEmpty == countryFilter = "" /\ yearFilter = "" /\ searchInput = ""

\* The (city, country) pairs of a list of articles.
CityPairs(articles) ==
  { << ArticlePool[r].city, ArticlePool[r].country >> : r \in Range(articles) }

\* The (city, country) pairs the registry's entries stand for.
RegistryPairs == { << cityMarkers[k].city, cityMarkers[k].country >> : k \in DOMAIN cityMarkers }

\* A filter or reset handler has run after initializeMap completed.
HandledAfterMapInit == pc = "done" /\ lastOp \in {"filter", "reset"}

\* C1: after a filterArticles or resetFilters call issued once initializeMap has
\* completed, the registry holds one aggregate for each (city, country) pair of
\* filteredArticles and none besides.
C1_AggregatesAreFilteredPairs ==
  HandledAfterMapInit =>
    /\ RegistryPairs = CityPairs(filteredArticles)
    /\ Cardinality(DOMAIN cityMarkers) = Cardinality(CityPairs(filteredArticles))

\* The layers the latest addCityMarkers call created.
CreatedLayers ==
  { [key |-> k, kind |-> kind, age |-> 0, first |-> cityMarkers[k].firstArticle] :
      k \in DOMAIN cityMarkers, kind \in LayerKinds(variant) }

\* C2: after a re-render (an addCityMarkers call after the first, run to its
\* end), the layers on the map are exactly the ones that call created.
C2_RerenderReplacesLayers ==
  (HandledAfterMapInit /\ lastMapCall = "done") => mapLayers = CreatedLayers

\* C3: filteredArticles holds only elements of allArticles, and a filterArticles
\* call with the three inputs empty makes it the full list.
C3_FilteredSubsetOfAll ==
  /\ Range(filteredArticles) \subseteq Range(allArticles)
  /\ (lastOp = "filter" /\ InputsEmpty) => filteredArticles = allArticles

\* A filter had narrowed the list, and a later filterArticles call with all
\* inputs empty has run.
C3_Witness ==
  /\ lastOp = "filter"
  /\ ~afterReset
  /\ InputsEmpty
  /\ Len(allArticles) >= 2
  /\ filteredArticles = allArticles
  /\ lastThrew = "no"

\* The position of an article in a list that holds it once.
PositionIn(articles, r) == CHOOSE i \in 1..Len(articles) : articles[i] = r

\* `part` holds elements of `whole`, each once, in the order of `whole`.
InOrderOf(part, whole) ==
  /\ Range(part) \subseteq Range(whole)
  /\ \A i, j \in 1..Len(part) :
       i < j => PositionIn(whole, part[i]) < PositionIn(whole, part[j])

\* The textual form of an article's year: of the stored number, the stored text,
\* or the year its date begins with.
YearTextOf ==
  [r \in ArticleRefs |->
     LET a == ArticlePool[r]
     IN CASE a.year.kind = "number" -> NumberToString(a.year.num)
          [] a.year.kind = "string" -> a.year.str
          [] OTHER -> SubSeq(a.date, 1, 4)]

CountrySatisfied(r) == countryFilter = "" \/ ArticlePool[r].country = countryFilter
YearSatisfied(r)    == yearFilter = "" \/ YearTextOf[r] = yearFilter
SearchSatisfied(r)  == searchInput = "" \/ SearchTable[r][searchInput]

\* C4: filterArticles sets filteredArticles to the articles of allArticles, in
\* their order, that satisfy every filter that is set.
C4_FilterSelectsFromAll ==
  lastOp = "filter" =>
    /\ InOrderOf(filteredArticles, allArticles)
    /\ \A r \in Range(allArticles) :
         r \in Range(filteredArticles)
           <=> (CountrySatisfied(r) /\ YearSatisfied(r) /\ SearchSatisfied(r))

\* C5: with a country filter set, filteredArticles holds only articles of exactly
\* that country, and every such article that passes the other filters.
C5_CountryFilterExact ==
  (lastOp = "filter" /\ countryFilter # "") =>
    /\ \A r \in Range(filteredArticles) : ArticlePool[r].country = countryFilter
    /\ \A r \in Range(allArticles) :
         (ArticlePool[r].country = countryFilter /\ YearSatisfied(r) /\ SearchSatisfied(r))
           => r \in Range(filteredArticles)

\* C6: with a year filter set, filterArticles completes and filteredArticles
\* holds only articles whose year in textual form equals the filter value.
C6_YearFilterCompletes ==
  (lastOp = "filter" /\ yearFilter # "") =>
    /\ lastThrew # "filter"
    /\ \A r \in Range(filteredArticles) : YearTextOf[r] = yearFilter

\* The fields a search term is matched against.
SearchFields(article) ==
  {article.title, article.city, article.country, article.content}
    \cup (IF article.tags.present THEN Range(article.tags.list) ELSE {})

\* The term occurs, case-insensitively, in one of the article's fields.
OccursInField ==
  [r \in ArticleRefs |->
     [t \in SearchTerms |->
        \E f \in SearchFields(ArticlePool[r]) : includes(toLowerCase(f), toLowerCase(t))]]

\* C7: with a search term set, an article passes the search filter exactly when
\* the term occurs in its title, city, country, content or one of its tags
\* (stated for the filterArticles calls that run to their end).
C7_SearchMatchesFieldsOnly ==
  (lastOp = "filter" /\ lastThrew = "no" /\ searchInput # "") =>
    \A r \in Range(allArticles) :
      (CountryTable[r][countryFilter] /\ YearTable[r][yearFilter]) =>
        (r \in Range(filteredArticles) <=> OccursInField[r][searchInput])

\* C8: after resetFilters the three inputs are empty and filteredArticles is
\* allArticles; a filterArticles call right after it leaves it so.
C8_ResetRestoresAll ==
  /\ lastOp = "reset" => (InputsEmpty /\ filteredArticles = allArticles)
  /\ (lastOp = "filter" /\ afterReset /\ InputsEmpty) => filteredArticles = allArticles

\* resetFilters has run on a list of two articles and filterArticles after it.
C8_Witness ==
  /\ lastOp = "filter"
  /\ afterReset
  /\ InputsEmpty
  /\ Len(allArticles) >= 2
  /\ filteredArticles = allArticles

\* The aggregates of the latest addCityMarkers call that hold an article.
AggregatesOf(r) == { i \in 1..Len(citiesMap) : r \in Range(citiesMap[i].articles) }

SamePair(r1, r2) ==
  /\ ArticlePool[r1].city = ArticlePool[r2].city
  /\ ArticlePool[r1].country = ArticlePool[r2].country

\* C9: the grouping of addCityMarkers yields one aggregate per distinct
\* (city, country) pair of its input: two articles share an aggregate exactly
\* when they have the same city and the same country (stated for the
\* addCityMarkers calls that run to their end).
C9_OneAggregatePerPair ==
  lastMapCall = "done" =>
  /\ Len(citiesMap) = Cardinality(CityPairs(mapArticles))
  /\ \A r1, r2 \in Range(mapArticles) :
       (AggregatesOf(r1) \cap AggregatesOf(r2) # {}) <=> SamePair(r1, r2)
  /\ \A i \in 1..Len(citiesMap) :
       << citiesMap[i].city, citiesMap[i].country >> \in CityPairs(mapArticles)

RECURSIVE SumWordCount(_)
SumWordCount(articles) ==
  IF Len(articles) = 0 THEN 0
  ELSE ArticlePool[Head(articles)].wordCount + SumWordCount(Tail(articles))

RECURSIVE SumTotalWords(_)
SumTotalWords(aggregates) ==
  IF Len(aggregates) = 0 THEN 0
  ELSE Head(aggregates).totalWords + SumTotalWords(Tail(aggregates))

\* An article occurs once in the article list of an aggregate.
OccursOnce(r, cityData) ==
  Cardinality({ j \in 1..Len(cityData.articles) : cityData.articles[j] = r }) = 1

\* C10: the totalWords of the aggregates add up to the wordCount of the input
\* articles, and every input article is in the list of exactly one aggregate.
C10_TotalWordsAddUp ==
  /\ SumTotalWords(citiesMap) = SumWordCount(mapArticles)
  /\ \A r \in Range(mapArticles) :
       /\ Cardinality(AggregatesOf(r)) = 1
       /\ \A i \in AggregatesOf(r) : OccursOnce(r, citiesMap[i])
  /\ \A i \in 1..Len(citiesMap) : Range(citiesMap[i].articles) \subseteq Range(mapArticles)

\* Filtering by country "Portugal" kept the two Porto articles of 500 and 700
\* words, which form one aggregate of 1200 words.
C10_Witness ==
  /\ lastOp = "filter"
  /\ countryFilter = "Portugal"
  /\ lastMapCall = "done"
  /\ Len(mapArticles) = 2
  /\ Len(citiesMap) = 1
  /\ citiesMap[1].city = "Porto"
  /\ citiesMap[1].totalWords = 1200

\* C11: in every render (an addCityMarkers call made once initMap has assigned
\* the map), each city aggregate gets a blob polygon on the map, whatever the
\* state of the boundary data and of the clipping capability.
C11_EveryAggregateGetsBlob ==
  (mapReady /\ lastMapCall # "none") =>
    \A i \in 1..Len(citiesMap) :
      \E l \in mapLayers : l.key = citiesMap[i].key /\ l.kind = "blob" /\ l.age = 0

\* A blob generation returned after a clipping step that failed: turf was
\* missing, or the intersection threw or yielded no ring.
ClippingFailed ==
  /\ blobCall.phase = "done"
  /\ ~(blobCall.attempted /\ Clips(blobCall.outcome))

\* C12: when clipping fails for a city, the polygon handed to the map is the
\* unclipped blob generated for that city: same vertex count, same points.
C12_FallbackIsGeneratedBlob ==
  ClippingFailed =>
    /\ Len(blobCall.result) = Len(blobCall.generated)
    /\ blobCall.result = blobCall.generated

\* C13: when the fetch or the parse of the article dataset fails, the container
\* shows the error message and no card, the map is never initialised, no layer
\* is added, and nothing further runs: no second fetch, no handler.
C13_FetchFailureShowsError ==
  pc = "failed" =>
    /\ lastThrew = "fetch"
    /\ container.kind = "error"
    /\ container.ids = << >>
    /\ allArticles = << >>
    /\ ~mapReady
    /\ mapLayers = {}
    /\ DOMAIN cityMarkers = {}
    /\ lastMapCall = "none"
    /\ ~ENABLED Next

\* The load has failed and the error message is in the container.
C13_Witness ==
  /\ pc = "failed"
  /\ lastOp = "load"
  /\ container.kind = "error"
  /\ europeBoundaries = "null"

\* The boundary fetch has settled without a usable boundary dataset.
BoundaryFetchFailed ==
  /\ pc \in {"done", "mapFailed"}
  /\ europeBoundaries # "loaded"

\* C14: when the boundary fetch fails, the article list stays rendered, the
\* container shows no error message, and every render, the first and the later
\* ones, gives each aggregate a blob without a country polygon to clip it with.
C14_BoundaryFailureOnlyDisablesClipping ==
  BoundaryFetchFailed =>
    /\ container.kind # "error"
    /\ container = RenderedContainer(filteredArticles)
    /\ lastMapCall # "threw"
    /\ \A i \in 1..Len(citiesMap) :
         /\ \E l \in mapLayers : l.key = citiesMap[i].key /\ l.kind = "blob" /\ l.age = 0
         /\ getCountryPolygon(europeBoundaries, citiesMap[i].country) = "null"

\* The total word counts the aggregation produces, and a total of no words.
WordTotals == {0} \cup { a.totalWords : a \in CityAggregates }

\* C15: the radius computed from an aggregate's total word count is
\* max(sqrt(total) * scaleFactor, floor): never below the floor, the scaled
\* square root when that is above the floor, and no smaller than the radius of
\* any smaller total.
C15_RadiusMonotoneAboveFloor ==
  blobCall.phase = "done" =>
    LET c == BlobConfig(variant)
        scaled == blobCall.cityData.totalWords * c.scale * c.scale
        r == blobCall.radius
    IN /\ r >= c.floor
       /\ r > c.floor => (r * r <= scaled /\ scaled < (r + 1) * (r + 1))
       /\ r = c.floor => scaled < (c.floor + 1) * (c.floor + 1)
       /\ \A total \in WordTotals :
            total <= blobCall.cityData.totalWords => Radius(variant, total) <= r

\* A radius above the floor was computed, for a total above one whose radius is
\* the floor.
C15_Witness ==
  /\ blobCall.phase = "done"
  /\ blobCall.radius > BlobConfig(variant).floor
  /\ \E total \in WordTotals :
       /\ 0 < total
       /\ total < blobCall.cityData.totalWords
       /\ Radius(variant, total) = BlobConfig(variant).floor

\* The number of points each snapshot configures.
ConfiguredPoints ==
  [v \in BlobVariants |->
     CASE v = "blobOnly" -> 14 [] v = "blobMarker" -> 10 [] OTHER -> 8]

\* Vertex i of the ring lies off the center in the direction of angle i - 1.
OnRay(ring, center, n, i) ==
  LET dLat == ring[i][1] - center[1] * 1000
      dLon == ring[i][2] - center[2] * 1000
  IN /\ << dLat, dLon >> # << 0, 0 >>
     /\ dLat * CosMilli(n)[i] >= 0
     /\ dLon * SinMilli(n)[i] >= 0
     /\ (CosMilli(n)[i] = 0) => dLat = 0
     /\ (SinMilli(n)[i] = 0) => dLon = 0

\* C16: the unclipped blob has one vertex at each of the N angles of its
\* snapshot (N = 14, 10 or 8) followed by a copy of the first: N + 1
\* coordinates, the last equal to the first.
C16_BlobHasNVerticesAndIsClosed ==
  blobCall.phase = "done" =>
    LET n == ConfiguredPoints[variant]
        ring == blobCall.generated
    IN /\ Len(ring) = n + 1
       /\ ring[Len(ring)] = ring[1]
       /\ \A i \in 1..n : OnRay(ring, blobCall.cityData.coordinates, n, i)

\* A blob of 14 vertices was generated from draws that are not all equal.
C16_Witness ==
  /\ blobCall.phase = "done"
  /\ variant = "blobOnly"
  /\ Len(blobCall.generated) = 15
  /\ blobCall.seed[1] # blobCall.seed[2]
  /\ blobCall.generated[1] # blobCall.generated[2]

\* C17: a filter or reset event handled before the boundary fetch has settled
\* does not fail in the map, and once initial loading has finished the map
\* holds the aggregates of the filtered list that the article list shows.
C17_ListAndMapAgree ==
  /\ (pc = "awaitBoundaries" /\ lastOp \in {"filter", "reset"}) => lastThrew # "map"
  /\ pc = "done" =>
       /\ container = RenderedContainer(filteredArticles)
       /\ citiesMap = GroupByCity(filteredArticles)

\* C18: the article list is rendered only once the dataset has been fetched and
\* parsed; layers and registry entries exist only once the boundary fetch has
\* settled; and after the list has been rendered the first map render
\* eventually completes, whatever the boundary fetch yielded.
C18_LoadOrdering ==
  /\ [](container.kind \in {"cards", "noResults"} => pc \notin {"start", "failed"})
  /\ []((mapLayers # {} \/ DOMAIN cityMarkers # {}) => pc = "done")
  /\ (pc = "awaitBoundaries" ~> pc = "done")

\* Every highlighted card is in the DOM and a pending timer will reset it.
HighlightIsPending ==
  \A id \in highlighted :
    /\ CardInDom(id)
    /\ \E i \in 1..Len(timers) : timers[i].id = id /\ timers[i].attached

\* The click handler of a blob of the latest render looks up the first article
\* of that blob's aggregate.
ClickTargetsFirst ==
  \A l \in mapLayers :
    (l.kind = "blob" /\ l.age = 0) =>
      \E i \in 1..Len(citiesMap) :
        /\ citiesMap[i].key = l.key
        /\ l.first = ArticlePool[citiesMap[i].articles[1]].id

\* A step that starts a timer is a click on a blob whose target card is in the
\* DOM: it highlights that card and nothing else.
TimerStartedByHit ==
  Len(timers') > Len(timers) =>
    LET t == timers'[Len(timers')]
    IN /\ timers' = Append(timers, t)
       /\ t.attached
       /\ CardInDom(t.id)
       /\ \E l \in mapLayers : l.kind = "blob" /\ l.first = t.id
       /\ highlighted' = highlighted \cup {t.id}

\* A step highlights a card only by starting a timer for it.
HighlightOnlyWithTimer ==
  ~(highlighted' \subseteq highlighted) => Len(timers') > Len(timers)

\* C19: a blob click highlights the card of the first article of the blob's
\* aggregate and starts a timer; without that card in the DOM it changes
\* nothing; and once no timer is pending no card carries the highlight.
C19_HighlightIsTemporary ==
  /\ [](HighlightIsPending /\ ClickTargetsFirst)
  /\ [][TimerStartedByHit /\ HighlightOnlyWithTimer]_vars

\* A card was highlighted, the list was rendered anew, and the new card of the
\* same article was highlighted again: one timer holds the old element, one the
\* new.
C19_Witness ==
  /\ Len(timers) = 2
  /\ ~timers[1].attached
  /\ timers[2].attached
  /\ timers[1].id = timers[2].id
  /\ highlighted = {timers[2].id}

\* C20: when the clipping step runs, the ring handed to the intersection is the
\* generated blob in (longitude, latitude) order, and a ring the intersection
\* yields is handed to the map in (latitude, longitude) order: the generated
\* blob itself when the intersection returns its argument unchanged, points of
\* the generated blob when it returns some of them.
C20_AxisSwapRoundTrip ==
  (blobCall.phase = "done" /\ blobCall.attempted) =>
    /\ Len(blobCall.handed) = Len(blobCall.generated)
    /\ \A i \in 1..Len(blobCall.generated) :
         blobCall.handed[i] = << blobCall.generated[i][2], blobCall.generated[i][1] >>
    /\ blobCall.outcome = "same" => blobCall.result = blobCall.generated
    /\ Clips(blobCall.outcome) =>
         \A i \in 1..Len(blobCall.result) :
           \E j \in 1..Len(blobCall.generated) : blobCall.result[i] = blobCall.generated[j]

\* The intersection returned the blob unchanged, for a blob whose latitudes and
\* longitudes differ.
C20_Witness ==
  /\ blobCall.phase = "done"
  /\ blobCall.attempted
  /\ blobCall.outcome = "same"
  /\ blobCall.result = blobCall.generated
  /\ blobCall.handed # blobCall.generated
  /\ blobCall.generated[1][1] # blobCall.generated[1][2]

\* C21: after a filterArticles or resetFilters call on a loaded dataset, the
\* article-count label states the number of articles in filteredArticles, which
\* is the number of cards in the container; when no article matches, the label
\* states 0 and the container holds the no-results message (stated for the
\* calls that reach renderArticles).
C21_CountLabelMatchesList ==
  (lastOp \in {"filter", "reset"} /\ lastThrew # "filter" /\ Len(allArticles) > 0) =>
    /\ articleCount = Len(filteredArticles)
    /\ Len(container.ids) = articleCount
    /\ Len(filteredArticles) = 0 => container.kind = "noResults"

====
